---- MODULE Spec2Model ----
(***************************************************************************)
(* Model of nix's src/sched.rs: the CpuSet bit mask in its two shapes      *)
(* (Sized / Dynamic), its accessors is_set / set / unset, the affinity     *)
(* wrappers sched_setaffinity / sched_getaffinity, and the thin syscall    *)
(* wrappers clone / unshare / setns / sched_getcpu / sched_yield.          *)
(*                                                                         *)
(* A libc_cpu_set (libc::cpu_set_t) is modelled as the set of bit offsets  *)
(* that are 1 in it; a CpuSet is [kind, vec] where vec is the sequence of  *)
(* libc_cpu_set words (one word for Sized).                                *)
(*                                                                         *)
(* libc::CPU_SET / CPU_CLR / CPU_ISSET take a reference to ONE cpu_set_t   *)
(* and index its `bits` array with a bounds-checked index, so a cpu number *)
(* at or beyond libc_cpu_set_bits_len panics.  CpuSet::libc_cpu_set(_mut)  *)
(* hands them the first word of a Dynamic set (`*vec.as_ptr()`).           *)
(***************************************************************************)
EXTENDS Integers, Sequences, FiniteSets, TLC

\* mem::size_of::<libc_cpu_set>() for Linux's cpu_set_t (1024 bits)
SizeOfLibcCpuSet == 128

\* const DEFAULT_ALLOC_SIZE: usize = 4 (the length of vec![..; 4])
DEFAULT_ALLOC_SIZE == 4

\* Accessor inputs are taken around word boundaries, for words 0..MaxWordIdx
MaxWordIdx == 4

libc_cpu_set_bits_len == SizeOfLibcCpuSet * 8

zeroed_libc_cpu_set == {}

Fields ==
    { k * libc_cpu_set_bits_len + d :
        k \in 0..MaxWordIdx, d \in {0, 1, libc_cpu_set_bits_len - 1} }

new == [kind |-> "Sized", vec |-> << zeroed_libc_cpu_set >>]

new_dynamic ==
    [kind |-> "Dynamic",
     vec  |-> [i \in 1..DEFAULT_ALLOC_SIZE |-> zeroed_libc_cpu_set]]

n_bytes(self) ==
    IF self.kind = "Sized"
    THEN SizeOfLibcCpuSet
    ELSE Len(self.vec) * SizeOfLibcCpuSet

n_bits(self) ==
    LET nb == IF self.kind = "Sized"
              THEN SizeOfLibcCpuSet
              ELSE Len(self.vec) * SizeOfLibcCpuSet
    IN  nb * 8

\* The word the accessors hand to libc: the value of a Sized set, the first
\* element of a Dynamic set's vec.
libc_cpu_set(self) == self.vec[1]

\* libc::CPU_ISSET(cpu, &cpu_set_t): bounds-checked read of one word.
CPU_ISSET(cpu, word) ==
    IF cpu < libc_cpu_set_bits_len
    THEN IF cpu \in word THEN "true" ELSE "false"
    ELSE "panic"

\* CPU_SET that assigns the word (=) where it should or the bit in (|=).
CPU_SET_assign(cpu, self) ==
    IF cpu < libc_cpu_set_bits_len
    THEN [res |-> "Ok", self |-> [self EXCEPT !.vec[1] = {cpu}]]
    ELSE [res |-> "panic", self |-> self]

\* libc::CPU_SET / CPU_CLR on the word libc_cpu_set_mut() refers to.
CPU_SET(cpu, self) ==
    IF cpu < libc_cpu_set_bits_len
    THEN [res |-> "Ok", self |-> [self EXCEPT !.vec[1] = @ \cup {cpu}]]
    ELSE [res |-> "panic", self |-> self]

CPU_CLR(cpu, self) ==
    IF cpu < libc_cpu_set_bits_len
    THEN [res |-> "Ok", self |-> [self EXCEPT !.vec[1] = @ \ {cpu}]]
    ELSE [res |-> "panic", self |-> self]

\* The Dynamic branch of set / unset: vec.resize_with(expected_vec_len, zeroed)
expected_vec_len(field) ==
    (field + (libc_cpu_set_bits_len - 1)) \div libc_cpu_set_bits_len

resize_with(vec, len) ==
    [i \in 1..len |-> IF i <= Len(vec) THEN vec[i] ELSE zeroed_libc_cpu_set]

Grow(self, field) ==
    IF self.kind = "Dynamic" /\ Len(self.vec) < expected_vec_len(field)
    THEN [self EXCEPT !.vec = resize_with(self.vec, expected_vec_len(field))]
    ELSE self

\* The range check with > where the code has >=.
OutOfRangeSized_gt(self, field) ==
    self.kind = "Sized" /\ field > n_bits(self)

OutOfRangeSized(self, field) ==
    self.kind = "Sized" /\ field >= n_bits(self)

is_set(self, field) ==
    IF OutOfRangeSized(self, field)
    THEN [res |-> "EINVAL", self |-> self]
    ELSE [res |-> CPU_ISSET(field, libc_cpu_set(self)), self |-> self]

set(self, field) ==
    IF OutOfRangeSized(self, field)
    THEN [res |-> "EINVAL", self |-> self]
    ELSE CPU_SET(field, Grow(self, field))

\* unset copied from set with the CPU_SET call left in.
unset_callsCpuSet(self, field) ==
    IF OutOfRangeSized(self, field)
    THEN [res |-> "EINVAL", self |-> self]
    ELSE CPU_SET(field, Grow(self, field))

unset(self, field) ==
    IF OutOfRangeSized(self, field)
    THEN [res |-> "EINVAL", self |-> self]
    ELSE CPU_CLR(field, Grow(self, field))

----------------------------------------------------------------------------
(* The syscall wrappers.  Each wrapper is an operator from its inputs and  *)
(* the outcome of the external calls it makes to a call record:            *)
(*   fn      the wrapper                                                   *)
(*   trace   the external calls it issued, in order, with their arguments  *)
(*   raw     the syscall's raw return value (<< >> if none was issued)     *)
(*   errno   errno as the failing external call left it                    *)
(*   buf     the CpuSet buffer handed to the kernel (affinity calls)       *)
(*   result  the Result returned to the caller                             *)

\* Stack buffers: base address and length in bytes
MaxBase == 17

MaxLen == 17

Errnos == {"EINVAL", "EPERM"}

\* What a syscall can come back with: the failure sentinel -1 with errno
\* set, or a non-negative value.
Failures == { [raw |-> -1, errno |-> e] : e \in Errnos }

Outcomes(values) == Failures \cup { [raw |-> v, errno |-> "none"] : v \in values }

\* Errno::result: the sentinel -1 becomes Err(Errno::last()), anything else Ok.
Errno_result(k) ==
    IF k.raw = -1
    THEN [tag |-> "Err", val |-> k.errno]
    ELSE [tag |-> "Ok", val |-> k.raw]

unit == "()"

\* Result::map(drop) and Result::and(Ok(x)): an Err passes through as it is.
map_drop(r) == IF r.tag = "Ok" THEN [tag |-> "Ok", val |-> unit] ELSE r

and_ok(r, x) == IF r.tag = "Ok" THEN [tag |-> "Ok", val |-> x] ELSE r

NoBuf == [kind |-> "none", vec |-> << >>]

\* clone: let ptr = stack.as_mut_ptr().add(stack.len());
\*        let ptr_aligned = ptr.sub(ptr as usize % 16);
ptr_aligned_mod8(base, len) ==
    LET ptr == base + len
    IN  ptr - (ptr % 8)

ptr_aligned(base, len) ==
    LET ptr == base + len
    IN  ptr - (ptr % 16)

\* CloneFlags and the signal number as sets of bit positions of a c_int
CLONE_VM == {8}

SIGCHLD == {0, 4}

\* flags.bits() | signal.unwrap_or(0)
combined(flags, signal) == flags \cup signal

clone(base, len, flags, signal, k) ==
    [fn     |-> "clone",
     trace  |-> << [sys   |-> "clone",
                    stack |-> ptr_aligned(base, len),
                    flags |-> combined(flags, signal)] >>,
     raw    |-> << k.raw >>,
     errno  |-> k.errno,
     buf    |-> NoBuf,
     result |-> Errno_result(k)]

unshare(flags, k) ==
    [fn     |-> "unshare",
     trace  |-> << [sys |-> "unshare", flags |-> flags] >>,
     raw    |-> << k.raw >>,
     errno  |-> k.errno,
     buf    |-> NoBuf,
     result |-> map_drop(Errno_result(k))]

setns(fd, nstype, k) ==
    [fn     |-> "setns",
     trace  |-> << [sys |-> "setns", fd |-> fd, flags |-> nstype] >>,
     raw    |-> << k.raw >>,
     errno  |-> k.errno,
     buf    |-> NoBuf,
     result |-> map_drop(Errno_result(k))]

sched_getcpu(k) ==
    [fn     |-> "sched_getcpu",
     trace  |-> << [sys |-> "sched_getcpu"] >>,
     raw    |-> << k.raw >>,
     errno  |-> k.errno,
     buf    |-> NoBuf,
     result |-> Errno_result(k)]

sched_yield(k) ==
    [fn     |-> "sched_yield",
     trace  |-> << [sys |-> "sched_yield"] >>,
     raw    |-> << k.raw >>,
     errno  |-> k.errno,
     buf    |-> NoBuf,
     result |-> map_drop(Errno_result(k))]

\* The cpu numbers the kernel reads from a buffer of len bytes that starts
\* at the first word of self.
MaskOf(self, len) ==
    UNION { { (i - 1) * libc_cpu_set_bits_len + o : o \in self.vec[i] } :
              i \in 1..(len \div SizeOfLibcCpuSet) }

\* The buffer after the kernel wrote mask into it.
Populate(self, mask) ==
    [self EXCEPT !.vec =
        [i \in 1..Len(self.vec) |->
            { m - (i - 1) * libc_cpu_set_bits_len :
                m \in { x \in mask : x \div libc_cpu_set_bits_len = i - 1 } }]]

\* sched_setaffinity(2): ESRCH for an unknown pid; the mask is restricted to
\* the cpus that exist and EINVAL if none is left.
K_setaffinity(pid, mask, np) ==
    IF pid # 0 THEN [raw |-> -1, errno |-> "ESRCH"]
    ELSE IF mask \cap (0..(np - 1)) = {} THEN [raw |-> -1, errno |-> "EINVAL"]
    ELSE [raw |-> 0, errno |-> "none"]

\* sched_getaffinity(2): ESRCH for an unknown pid, EINVAL when the buffer
\* has fewer bits than there are cpus.
K_getaffinity(pid, len, np) ==
    IF pid # 0 THEN [raw |-> -1, errno |-> "ESRCH"]
    ELSE IF len * 8 < np THEN [raw |-> -1, errno |-> "EINVAL"]
    ELSE [raw |-> 0, errno |-> "none"]

sched_setaffinity(pid, cpuset, np) ==
    LET cpuset_n_bytes == n_bytes(cpuset)
        mask == MaskOf(cpuset, cpuset_n_bytes)
        k    == K_setaffinity(pid, mask, np)
    IN  [fn     |-> "sched_setaffinity",
         trace  |-> << [sys  |-> "sched_setaffinity", pid |-> pid,
                        len  |-> cpuset_n_bytes, mask |-> mask] >>,
         raw    |-> << k.raw >>,
         errno  |-> k.errno,
         buf    |-> cpuset,
         result |-> map_drop(Errno_result(k))]

\* sysconf(_NPROCESSORS_ONLN): Err(errno), Ok(None) or Ok(Some(n))
SysconfOutcomes(np) ==
    { [tag |-> "Err", some |-> FALSE, val |-> 0,  errno |-> "EINVAL"],
      [tag |-> "Ok",  some |-> FALSE, val |-> 0,  errno |-> "none"],
      [tag |-> "Ok",  some |-> TRUE,  val |-> np, errno |-> "none"] }

\* The buffer sched_getaffinity chooses from sysconf's answer.
ChooseCpuSet(sc) ==
    IF sc.some
    THEN IF sc.val > libc_cpu_set_bits_len THEN new_dynamic ELSE new
    ELSE new_dynamic

\* sched_getaffinity that takes a failed sysconf for "count unknown" and
\* goes on to the syscall, where the code returns with `?`.
sched_getaffinity_noQuestionMark(pid, sc, np, km) ==
    LET cpuset == ChooseCpuSet(sc)
        k      == K_getaffinity(pid, n_bytes(cpuset), np)
        filled == IF k.raw = -1 THEN cpuset ELSE Populate(cpuset, km)
    IN  [fn     |-> "sched_getaffinity",
         trace  |-> << [sys |-> "sysconf", out |-> sc],
                       [sys |-> "sched_getaffinity", pid |-> pid,
                        len |-> n_bytes(cpuset)] >>,
         raw    |-> << k.raw >>,
         errno  |-> k.errno,
         buf    |-> filled,
         result |-> and_ok(Errno_result(k), filled)]

sched_getaffinity(pid, sc, np, km) ==
    IF sc.tag = "Err"
    THEN [fn     |-> "sched_getaffinity",
          trace  |-> << [sys |-> "sysconf", out |-> sc] >>,
          raw    |-> << >>,
          errno  |-> sc.errno,
          buf    |-> NoBuf,
          result |-> [tag |-> "Err", val |-> sc.errno]]
    ELSE LET cpuset == ChooseCpuSet(sc)
             k      == K_getaffinity(pid, n_bytes(cpuset), np)
             filled == IF k.raw = -1 THEN cpuset ELSE Populate(cpuset, km)
         IN  [fn     |-> "sched_getaffinity",
              trace  |-> << [sys |-> "sysconf", out |-> sc],
                            [sys |-> "sched_getaffinity", pid |-> pid,
                             len |-> n_bytes(cpuset)] >>,
              raw    |-> << k.raw >>,
              errno  |-> k.errno,
              buf    |-> filled,
              result |-> and_ok(Errno_result(k), filled)]

----------------------------------------------------------------------------
(* A program that creates a CpuSet and calls its accessors.                *)

VARIABLES
    cs,        \* the CpuSet
    st,        \* "running", or "panicked" once an accessor panicked
    ret,       \* the last accessor call: op, field, result, the set before it
    prev,      \* the accessor call before that one (op, field, result)
    lastMut,   \* per field, the last successful mutation: "none"/"set"/"unset"
    nproc,     \* the host: number of online processors (cpus 0..nproc-1)
    kmask,     \* the kernel: affinity mask of the calling thread
    applied,   \* the CpuSet of the last successful sched_setaffinity(0, _)
    stack,     \* the program's stack buffer for clone: << base address, length >>
    call       \* the last wrapper call: inputs, external calls made, result

accVars == << cs, st, ret, prev, lastMut >>

sysVars == << nproc, kmask, applied, stack, call >>

vars == << cs, st, ret, prev, lastMut, nproc, kmask, applied, stack, call >>

NoCall == [op |-> "none", field |-> 0, res |-> "none", before |-> new]

Brief(r) == [op |-> r.op, field |-> r.field, res |-> r.res]

NoWrapperCall ==
    [fn |-> "none", trace |-> << >>, raw |-> << >>, errno |-> "none",
     buf |-> NoBuf, result |-> [tag |-> "none", val |-> unit]]

\* The hosts: few cpus, exactly / one more than a Sized set can address,
\* one more than new_dynamic() can address.
NProcs ==
    { 2, libc_cpu_set_bits_len, libc_cpu_set_bits_len + 1,
      DEFAULT_ALLOC_SIZE * libc_cpu_set_bits_len + 1 }

InitAcc ==
    /\ cs \in {new, new_dynamic}
    /\ st = "running"
    /\ ret = [NoCall EXCEPT !.before = cs]
    /\ prev = Brief(NoCall)
    /\ lastMut = [f \in Fields |-> "none"]
    /\ nproc = 2
    /\ kmask = 0..(nproc - 1)
    /\ applied = NoBuf
    /\ stack = << 0, 0 >>
    /\ call = NoWrapperCall

Record(op, field, out) ==
    /\ ret' = [op |-> op, field |-> field, res |-> out.res, before |-> cs]
    /\ prev' = Brief(ret)
    /\ cs' = out.self
    /\ st' = IF out.res = "panic" THEN "panicked" ELSE "running"
    /\ lastMut' = IF out.res = "Ok" /\ op \in {"set", "unset"}
                  THEN [lastMut EXCEPT ![field] = op]
                  ELSE lastMut
    /\ UNCHANGED sysVars

IsSet(field) ==
    /\ st = "running"
    /\ Record("is_set", field, is_set(cs, field))

Set(field) ==
    /\ st = "running"
    /\ Record("set", field, set(cs, field))

Unset(field) ==
    /\ st = "running"
    /\ Record("unset", field, unset(cs, field))

NextAcc ==
    \/ \E f \in Fields : IsSet(f)
    \/ \E f \in Fields : Set(f)
    \/ \E f \in Fields : Unset(f)

Spec == InitAcc /\ [][NextAcc]_vars

----------------------------------------------------------------------------
(* A program that calls the syscall wrappers on a host with nproc cpus.    *)

RECURSIVE SetAll(_, _)
SetAll(self, S) ==
    IF S = {} THEN self
    ELSE LET f == CHOOSE x \in S : TRUE
         IN  SetAll(set(self, f).self, S \ {f})

\* The CpuSets the program builds with set() to pass to sched_setaffinity.
UserSets ==
    { SetAll(c, S) : c \in {new, new_dynamic},
                     S \in SUBSET {0, 1, libc_cpu_set_bits_len - 1} }

\* ... or the set the preceding sched_getaffinity returned.
Returned ==
    IF call.fn = "sched_getaffinity" /\ call.result.tag = "Ok"
    THEN {call.result.val}
    ELSE {}

Pids == {0, 77}

InitSys ==
    /\ cs = new
    /\ st = "running"
    /\ ret = NoCall
    /\ prev = Brief(NoCall)
    /\ lastMut = [f \in Fields |-> "none"]
    /\ nproc \in NProcs
    /\ kmask = 0..(nproc - 1)
    /\ applied = NoBuf
    /\ stack = << 0, MaxLen >>
    /\ call = NoWrapperCall

Clone ==
    \E flags \in {{}, CLONE_VM}, signal \in {{}, SIGCHLD}, k \in Outcomes({7}) :
        /\ call' = clone(stack[1], stack[2], flags, signal, k)
        /\ UNCHANGED << accVars, nproc, kmask, applied, stack >>

Unshare ==
    \E flags \in {{}, CLONE_VM}, k \in Outcomes({0}) :
        /\ call' = unshare(flags, k)
        /\ UNCHANGED << accVars, nproc, kmask, applied, stack >>

Setns ==
    \E fd \in {3}, nstype \in {{}, CLONE_VM}, k \in Outcomes({0}) :
        /\ call' = setns(fd, nstype, k)
        /\ UNCHANGED << accVars, nproc, kmask, applied, stack >>

SchedGetcpu ==
    \E k \in Outcomes(0..(nproc - 1) \cap {0, 1}) :
        /\ call' = sched_getcpu(k)
        /\ UNCHANGED << accVars, nproc, kmask, applied, stack >>

SchedYield ==
    \E k \in Outcomes({0}) :
        /\ call' = sched_yield(k)
        /\ UNCHANGED << accVars, nproc, kmask, applied, stack >>

SchedSetaffinity ==
    \E pid \in Pids, c \in UserSets \cup Returned :
        LET out == sched_setaffinity(pid, c, nproc)
        IN  /\ call' = out
            /\ kmask' = IF out.raw = << 0 >>
                        THEN out.trace[1].mask \cap (0..(nproc - 1))
                        ELSE kmask
            /\ applied' = IF out.raw = << 0 >> THEN c ELSE applied
            /\ UNCHANGED << accVars, nproc, stack >>

SchedGetaffinity ==
    \E pid \in Pids, sc \in SysconfOutcomes(nproc) :
        /\ call' = sched_getaffinity(pid, sc, nproc, kmask)
        /\ UNCHANGED << accVars, nproc, kmask, applied, stack >>

NextSys ==
    \/ Clone
    \/ Unshare
    \/ Setns
    \/ SchedGetcpu
    \/ SchedYield
    \/ SchedSetaffinity
    \/ SchedGetaffinity

SpecSys == InitSys /\ [][NextSys]_vars

----------------------------------------------------------------------------
(* A program that calls clone with a stack buffer of any placement and     *)
(* length.                                                                 *)

InitClone ==
    /\ cs = new
    /\ st = "running"
    /\ ret = NoCall
    /\ prev = Brief(NoCall)
    /\ lastMut = [f \in Fields |-> "none"]
    /\ nproc = 2
    /\ kmask = 0..(nproc - 1)
    /\ applied = NoBuf
    /\ stack \in (0..MaxBase) \X (0..MaxLen)
    /\ call = NoWrapperCall

NextClone == Clone

SpecClone == InitClone /\ [][NextClone]_vars

----------------------------------------------------------------------------
(* Properties of the accessors, checked under Spec.                        *)

Mutating == ret.op \in {"set", "unset"}

\* The bit g as stored in the backing words of self.
Bit(self, g) ==
    /\ g < n_bits(self)
    /\ (g % libc_cpu_set_bits_len) \in self.vec[(g \div libc_cpu_set_bits_len) + 1]

\* C1: on a Dynamic set, set(field) succeeds for every field, leaves at least
\* field + 1 bits of backing storage, and is_set(field) is then true.
C1_DynamicSetAlwaysSucceeds ==
    (ret.op = "set" /\ ret.before.kind = "Dynamic")
        => /\ ret.res = "Ok"
           /\ n_bits(cs) >= ret.field + 1
           /\ is_set(cs, ret.field).res = "true"

\* C2: on a Sized set, is_set / set / unset with field >= n_bits return
\* EINVAL and leave the set as it was.
C2_SizedOutOfRangeIsEinval ==
    (ret.op # "none" /\ ret.before.kind = "Sized" /\ ret.field >= n_bits(ret.before))
        => /\ ret.res = "EINVAL"
           /\ cs = ret.before

C2_Witness ==
    /\ ret.op = "unset"
    /\ ret.before.kind = "Sized"
    /\ ret.field = n_bits(ret.before)
    /\ ret.res = "EINVAL"
    /\ cs.vec[1] # {}
    /\ prev.op = "set" /\ prev.res = "EINVAL"

\* C3: on a Sized set made by new() and a field < n_bits, is_set is false
\* until the field is set, true right after set(field), false again right
\* after unset(field); none of the three calls fails.
C3_SizedSetUnsetIsSet ==
    (ret.op # "none" /\ ret.before.kind = "Sized" /\ ret.field < n_bits(ret.before))
        => /\ Mutating => ret.res = "Ok"
           /\ ret.op = "is_set" => ret.res \in {"true", "false"}
           /\ (ret.op = "is_set" /\ lastMut[ret.field] = "none")
                 => ret.res = "false"
           /\ (ret.op = "is_set" /\ prev.op = "set" /\ prev.field = ret.field)
                 => ret.res = "true"
           /\ (ret.op = "is_set" /\ prev.op = "unset" /\ prev.field = ret.field)
                 => ret.res = "false"

C3_Witness ==
    /\ cs.kind = "Sized"
    /\ ret.op = "is_set" /\ ret.field = libc_cpu_set_bits_len - 1
    /\ ret.res = "false"
    /\ prev = [op |-> "unset", field |-> ret.field, res |-> "Ok"]
    /\ lastMut[ret.field] = "unset"
    /\ lastMut[0] = "set" /\ is_set(cs, 0).res = "true"

\* C5: the capacity of a Dynamic set never decreases, is a whole number of
\* words, and set / unset grow it whenever the field is not covered by it.
C5_DynamicGrowsToCover ==
    (ret.op # "none" /\ ret.before.kind = "Dynamic")
        => /\ Len(cs.vec) >= Len(ret.before.vec)
           /\ n_bits(cs) % libc_cpu_set_bits_len = 0
           /\ (Mutating /\ ret.field >= n_bits(ret.before))
                 => n_bits(cs) > ret.field

\* C9: on a Dynamic set, is_set never fails and never changes the set, and
\* answers false for a field at or beyond the capacity.
C9_DynamicIsSetTotal ==
    (ret.op = "is_set" /\ ret.before.kind = "Dynamic")
        => /\ ret.res \in {"true", "false"}
           /\ cs = ret.before
           /\ ret.field >= n_bits(ret.before) => ret.res = "false"

\* C10: a successful set(f) / unset(f) changes bit f only, words added by
\* growth are zero, and is_set(g) is true exactly when the last successful
\* mutation of g was set(g).
C10_OnlyBitFChanges ==
    /\ (Mutating /\ ret.res = "Ok")
          => /\ \A g \in Fields \ {ret.field} :
                    g < n_bits(ret.before)
                       => /\ is_set(cs, g).res = is_set(ret.before, g).res
                          /\ Bit(cs, g) = Bit(ret.before, g)
             /\ \A i \in 1..Len(ret.before.vec) :
                    cs.vec[i] \ {ret.field} = ret.before.vec[i] \ {ret.field}
             /\ Bit(cs, ret.field) = (ret.op = "set")
    /\ Mutating
          => \A i \in (Len(ret.before.vec) + 1)..Len(cs.vec) :
                 cs.vec[i] = zeroed_libc_cpu_set
    /\ \A g \in Fields :
          (is_set(cs, g).res = "true") = (lastMut[g] = "set")

C10_Witness ==
    /\ cs.kind = "Dynamic"
    /\ ret.op = "unset" /\ ret.res = "Ok" /\ ret.field = 1
    /\ Bit(ret.before, 1) /\ ~Bit(cs, 1)
    /\ Bit(cs, 0) /\ Bit(cs, libc_cpu_set_bits_len - 1)
    /\ lastMut[0] = "set" /\ lastMut[1] = "unset"

----------------------------------------------------------------------------
(* Properties of clone's stack address, checked under SpecClone.           *)

StackTop == call.trace[1].stack

StackEnd == stack[1] + stack[2]

\* C7 as stated: for every stack buffer the address handed to the kernel is
\* a multiple of 16, not above the buffer's end, less than 16 below it, and
\* not below the buffer's base.
C7_StackTopInsideBuffer ==
    call.fn = "clone"
        => /\ StackTop % 16 = 0
           /\ StackTop <= StackEnd
           /\ StackEnd - StackTop < 16
           /\ StackTop >= stack[1]

\* C7 amended: the address is a multiple of 16, not above the buffer's end
\* and less than 16 below it; it is inside the buffer when the buffer has at
\* least 15 bytes.
C7_StackTopAligned ==
    call.fn = "clone"
        => /\ StackTop % 16 = 0
           /\ StackTop <= StackEnd
           /\ StackEnd - StackTop < 16
           /\ stack[2] >= 15 => StackTop >= stack[1]

C7_Witness ==
    /\ call.fn = "clone"
    /\ stack = << 16, 15 >>
    /\ StackTop = 16
    /\ call.result.tag = "Ok"

----------------------------------------------------------------------------
(* Properties of the wrappers, checked under SpecSys.                      *)

SyscallsIssued == { i \in DOMAIN call.trace : call.trace[i].sys # "sysconf" }

SysconfFailed ==
    \E i \in DOMAIN call.trace :
        call.trace[i].sys = "sysconf" /\ call.trace[i].out.tag = "Err"

\* C4: sched_getaffinity asks sysconf first; a count above what the Sized
\* shape addresses gives a Dynamic buffer of at least that many bits, any
\* other count the Sized one; the syscall gets the buffer's byte length and
\* on success the populated buffer is returned.
C4_GetaffinityBufferFitsCount ==
    (call.fn = "sched_getaffinity" /\ SyscallsIssued # {})
        => LET sc == call.trace[1].out
           IN  /\ call.trace[1].sys = "sysconf"
               /\ SyscallsIssued = {2}
               /\ sc.some
                    => IF sc.val > libc_cpu_set_bits_len
                       THEN call.buf.kind = "Dynamic" /\ n_bits(call.buf) >= sc.val
                       ELSE call.buf.kind = "Sized"
               /\ call.trace[2].len = n_bytes(call.buf)
               /\ call.raw = << 0 >>
                    => /\ call.result = [tag |-> "Ok", val |-> call.buf]
                       /\ \A c \in kmask : Bit(call.buf, c)

\* C6: sched_setaffinity hands the kernel the whole mask of cs with its byte
\* length, and after it succeeded a successful sched_getaffinity returns a
\* set whose is_set agrees with that of cs on every bit cs can represent
\* (cs naming existing cpus only, so that the kernel keeps it as it is).
C6_RoundTrip ==
    /\ call.fn = "sched_setaffinity"
          => /\ call.trace[1].len = n_bytes(call.buf)
             /\ \A g \in Fields :
                    g < n_bits(call.buf)
                       => (g \in call.trace[1].mask) = Bit(call.buf, g)
    /\ (/\ call.fn = "sched_getaffinity"
        /\ call.result.tag = "Ok"
        /\ applied # NoBuf
        /\ \A g \in Fields : g < n_bits(applied) => (g \in kmask) = Bit(applied, g))
          => \A b \in Fields :
                 b < n_bits(applied)
                    => /\ is_set(applied, b).res \in {"true", "false"}
                       /\ is_set(call.result.val, b).res = is_set(applied, b).res

\* C8: a wrapper issues its syscall at most once; it returns Err exactly when
\* the syscall (or sched_getaffinity's sysconf query) failed, carrying errno;
\* a failed sysconf query means the affinity syscall is not issued.
C8_FailuresPropagateOnce ==
    call.fn # "none"
        => /\ Cardinality(SyscallsIssued) <= 1
           /\ \A i \in SyscallsIssued : call.trace[i].sys = call.fn
           /\ (call.result.tag = "Err") = (SysconfFailed \/ call.raw = << -1 >>)
           /\ call.result.tag \in {"Ok", "Err"}
           /\ call.result.tag = "Err"
                => /\ call.errno # "none"
                   /\ call.result = [tag |-> "Err", val |-> call.errno]
           /\ SysconfFailed => SyscallsIssued = {}
           /\ (call.fn # "sched_getaffinity") => Cardinality(SyscallsIssued) = 1

C8_Witness ==
    /\ call.fn = "sched_getaffinity"
    /\ SysconfFailed
    /\ call.trace = << [sys |-> "sysconf",
                        out |-> [tag |-> "Err", some |-> FALSE, val |-> 0,
                                 errno |-> "EINVAL"]] >>
    /\ call.result = [tag |-> "Err", val |-> "EINVAL"]
    /\ applied # NoBuf

====
